---- MODULE Spec2Model ----
(***************************************************************************)
(* Model of the snack rating dashboard (src/snack_dashboard(1).py, with    *)
(* the earlier src/snack_dashboard_old.py sharing the same core).          *)
(*                                                                         *)
(* The script is one top-to-bottom run: load_data, load_snack_names, the   *)
(* "Snack Label" column, the snack averages table, the snack-matches       *)
(* stage, the person selectbox; the refresh button reruns it.              *)
(*                                                                         *)
(* Text is a sequence of one-character strings ("S1" is <<"S","1">>), so   *)
(* formatting, stripping, parsing and lexicographic ordering are computed. *)
(* An empty cell (<<>>) is what read_csv turns into NaN.                   *)
(* A number is an integer count of 1/Scale units; a mean is an exact       *)
(* fraction <<numerator, denominator>> of such units.  Floating point      *)
(* representation error is not modelled: round(2) is round-half-to-even on *)
(* the exact value, as numpy documents it.  Rating cells are finite        *)
(* decimals without sign or exponent, and no two snack ids of the inputs   *)
(* format to the same "Snack Label".                                       *)
(***************************************************************************)
EXTENDS Integers, Sequences, FiniteSets, TLC

\* ---------------------------------------------------------------- bounds

\* Largest number of rows of the ratings sheet.
MaxRows == 3

\* Number of decimal places a rating cell of the sheet may carry.
DecimalPlaces == 3

RECURSIVE Pow10(_)
Pow10(k) == IF k = 0 THEN 1 ELSE 10 * Pow10(k - 1)

\* One unit of a number of the model is 1/Scale.
Scale == Pow10(DecimalPlaces)

\* ------------------------------------------------------------------ text

\* The characters in use, in code point order (Python compares str by code point).
Alphabet == << " ", "(", ")", ".", "0", "1", "2", "3", "4", "5", "6", "7", "8", "9",
               "A", "B", "C", "S", "Z", "x" >>

Ord(c) == CHOOSE i \in 1..Len(Alphabet) : Alphabet[i] = c

Digits == << "0", "1", "2", "3", "4", "5", "6", "7", "8", "9" >>

IsDigit(c) == \E i \in 1..10 : Digits[i] = c

DigitVal(c) == (CHOOSE i \in 1..10 : Digits[i] = c) - 1

\* Python's str < str.
RECURSIVE LexLess(_, _)
LexLess(s, t) ==
    IF t = <<>> THEN FALSE
    ELSE IF s = <<>> THEN TRUE
    ELSE IF Head(s) = Head(t) THEN LexLess(Tail(s), Tail(t))
    ELSE Ord(Head(s)) < Ord(Head(t))

RECURSIVE LStrip(_)
LStrip(s) == IF s # <<>> /\ Head(s) = " " THEN LStrip(Tail(s)) ELSE s

RECURSIVE RStrip(_)
RStrip(s) ==
    IF s # <<>> /\ s[Len(s)] = " " THEN RStrip(SubSeq(s, 1, Len(s) - 1)) ELSE s

\* str.strip()
Strip(s) == RStrip(LStrip(s))

\* The sorted sequence of the members of a set of texts (groupby sorts its keys).
RECURSIVE SortedKeys(_)
SortedKeys(S) ==
    IF S = {} THEN <<>>
    ELSE LET m == CHOOSE x \in S : \A y \in S : ~LexLess(y, x)
         IN <<m>> \o SortedKeys(S \ {m})

\* ------------------------------------------------------------ arithmetic

RECURSIVE Gcd(_, _)
Gcd(a, b) == IF b = 0 THEN a ELSE Gcd(b, a % b)

Abs(x) == IF x < 0 THEN -x ELSE x

\* A fraction in lowest terms, denominator positive.
Frac(n, d) == LET g == Gcd(Abs(n), d) IN <<n \div g, d \div g>>

FAdd(a, b) == Frac(a[1] * b[2] + b[1] * a[2], a[2] * b[2])

FSub(a, b) == Frac(a[1] * b[2] - b[1] * a[2], a[2] * b[2])

FAbs(a) == <<Abs(a[1]), a[2]>>

FDivInt(a, k) == Frac(a[1], a[2] * k)

FLess(a, b) == a[1] * b[2] < b[1] * a[2]

FLeq(a, b) == a[1] * b[2] <= b[1] * a[2]

RECURSIVE SumSeq(_)
SumSeq(s) == IF s = <<>> THEN 0 ELSE Head(s) + SumSeq(Tail(s))

RECURSIVE FSum(_)
FSum(s) == IF s = <<>> THEN <<0, 1>> ELSE FAdd(Head(s), FSum(Tail(s)))

\* The mean of a non-empty sequence of integers, as an exact fraction.
Mean(s) == Frac(SumSeq(s), Len(s))

\* The mean of a non-empty sequence of fractions.
FMean(s) == FDivInt(FSum(s), Len(s))

\* n/d (n >= 0, d > 0) rounded to the nearest integer, halves to the even one.
RoundHalfEven(n, d) ==
    LET q == n \div d
        r == n % d
    IN IF 2 * r < d THEN q
       ELSE IF 2 * r > d THEN q + 1
       ELSE IF q % 2 = 0 THEN q ELSE q + 1

\* .round(2) / round(x, 2): a fraction of units to the nearest hundredth, in units.
Round2(a) == RoundHalfEven(a[1] * 100, a[2] * Scale) * (Scale \div 100)

\* ---------------------------------------------------------------- inputs

RATING_COLS == << "FLAVOUR", "TEXTURE", "SNACKABILITY", "ORIGINALITY" >>

NCols == Len(RATING_COLS)

Cols == 1..NCols

\* Rating cells of one row, as the sheet holds them.
R5 == << <<"5">>, <<"5">>, <<"5">>, <<"5">> >>

R1 == << <<"1">>, <<"1">>, <<"1">>, <<"1">> >>

RMixed == << <<"5">>, <<"1">>, <<"5">>, <<"1">> >>

RFine == << <<"1", ".", "0", "0", "4">>, <<"1", ".", "0", "0", "4">>,
            <<"1", ".", "0", "0", "4">>, <<"1", ".", "0", "0", "9">> >>

RNonNumeric == << <<"5">>, <<"x">>, <<"5">>, <<"5">> >>

RMissing == << <<"5">>, <<"5">>, <<>>, <<"5">> >>

RawRow(n, s, r) == [name |-> n, snack |-> s, ratings |-> r]

\* The rows a ratings sheet is made of: three people, two snacks, whole and
\* fractional ratings, and rows with a cell missing or not numeric.
RowPool == <<
    RawRow(<<"A">>, <<"S", "1">>, R5),
    RawRow(<<"A">>, <<"S", "1">>, R1),
    RawRow(<<"A">>, <<"S", "2">>, RMixed),
    RawRow(<<"B">>, <<"S", "1">>, R1),
    RawRow(<<"B">>, <<"S", "2">>, RFine),
    RawRow(<<"C">>, <<"S", "1">>, R1),
    RawRow(<<"C">>, <<"S", "2">>, R5),
    RawRow(<<>>, <<"S", "1">>, R5),
    RawRow(<<"A">>, <<>>, R1),
    RawRow(<<"B">>, <<"S", "1">>, RNonNumeric),
    RawRow(<<"C">>, <<"S", "2">>, RMissing) >>

\* The ratings sheets: up to MaxRows rows of the pool (a row may repeat), each
\* collection of rows in the order of the pool.
Sheets ==
    { [i \in 1..Len(ix) |-> RowPool[ix[i]]] :
        ix \in { f \in UNION { [1..n -> 1..Len(RowPool)] : n \in 0..MaxRows } :
                    \A i \in 1..Len(f), j \in 1..Len(f) : i < j => f[i] <= f[j] } }

\* The snack names sheets: empty, or one naming both snacks (with stray blanks),
\* the names in the opposite order to the ids.
NamesSheets == {
    <<>>,
    << [id |-> <<" ", "S", "1">>, name |-> <<"Z", " ">>],
       [id |-> <<"S", "2">>, name |-> <<"A">>] >> }

\* ----------------------------------------------------------------- state

VARIABLES
    sheet,                \* the ratings sheet behind SHEET_URL
    pc,                   \* the script's position
    message,              \* st.error / st.warning / st.info shown, or "none"
    df,                   \* the cleaned ratings
    snack_names,          \* snack id -> display name
    snack_avgs,           \* the snack averages table
    person_snack,         \* person x snack matrix
    people,               \* its row labels
    dist_matrix,          \* distances, NaN on the diagonal
    selected_person,
    most_similar_name,
    most_similar_score,
    least_similar_name,
    least_similar_score

vars == << sheet, pc, message, df, snack_names, snack_avgs, person_snack, people,
           dist_matrix, selected_person, most_similar_name, most_similar_score,
           least_similar_name, least_similar_score >>

\* NaN: rating values are never negative in the model, so -1 is free.
NaN == 0 - 1

\* A name not (yet) assigned.
Unset == << "?" >>

\* ------------------------------------------------------------- load_data

RECURSIVE ParseDigits(_)
ParseDigits(s) ==
    IF s = <<>> THEN 0 ELSE 10 * ParseDigits(SubSeq(s, 1, Len(s) - 1)) + DigitVal(s[Len(s)])

AllDigits(s) == \A i \in 1..Len(s) : IsDigit(s[i])

\* pd.to_numeric(errors="coerce") on one cell: the value in units of 1/Scale, or
\* NaN.  The grammar is digits with at most one decimal point (no sign, no
\* exponent); digits past DecimalPlaces are cut.
ToNumeric(s) ==
    LET dots == { i \in 1..Len(s) : s[i] = "." }
    IN IF dots = {} THEN
           IF s # <<>> /\ AllDigits(s) THEN ParseDigits(s) * Scale ELSE NaN
       ELSE IF Cardinality(dots) > 1 THEN NaN
       ELSE LET d == CHOOSE i \in dots : TRUE
                ip == SubSeq(s, 1, d - 1)
                fp == SubSeq(s, d + 1, Len(s))
            IN IF AllDigits(ip) /\ AllDigits(fp) /\ Len(ip) + Len(fp) > 0
               THEN (ParseDigits(ip \o fp) * Scale) \div Pow10(Len(fp))
               ELSE NaN

\* df.dropna(subset=[COL_NAME, COL_SNACK] + RATING_COLS) on the raw sheet.
DropNaRaw(rows) ==
    SelectSeq(rows, LAMBDA r : /\ r.name # <<>>
                               /\ r.snack # <<>>
                               /\ \A c \in Cols : r.ratings[c] # <<>>)

\* df[col] = pd.to_numeric(df[col], errors="coerce") for each rating column.
Coerce(rows) ==
    [i \in 1..Len(rows) |->
        [name |-> rows[i].name, snack |-> rows[i].snack,
         scores |-> [c \in Cols |-> ToNumeric(rows[i].ratings[c])]]]

\* The second dropna left out: a row whose cell did not coerce stays.
DropNaRatingsOmitted(rows) == rows

\* df.dropna(subset=RATING_COLS) after the coercion.
DropNaRatings(rows) ==
    SelectSeq(rows, LAMBDA r : \A c \in Cols : r.scores[c] # NaN)

load_data(rows) == DropNaRatings(Coerce(DropNaRaw(rows)))

\* ------------------------------------------------------ load_snack_names

\* dict(zip(ids, names)) after .astype(str).str.strip(): a later row wins.
load_snack_names(ns) ==
    LET ids == { Strip(ns[i].id) : i \in 1..Len(ns) }
        last(k) == CHOOSE i \in 1..Len(ns) :
                      /\ Strip(ns[i].id) = k
                      /\ \A j \in 1..Len(ns) : Strip(ns[j].id) = k => j <= i
    IN [k \in ids |-> Strip(ns[last(k)].name)]

\* f"{name} ({snack_id})" if name else str(snack_id)
snack_label(snack_id, names) ==
    LET k == Strip(snack_id)
    IN IF k \in DOMAIN names /\ names[k] # <<>>
       THEN names[k] \o <<" ", "(">> \o snack_id \o <<")">>
       ELSE snack_id

\* df["Snack Label"] = df[COL_SNACK].astype(str).map(...)
WithLabels(rows, names) ==
    [i \in 1..Len(rows) |->
        [name |-> rows[i].name, snack |-> rows[i].snack, scores |-> rows[i].scores,
         label |-> snack_label(rows[i].snack, names)]]

\* -------------------------------------------------------- snack averages

\* The values of rating column c over a sequence of cleaned rows.
Column(rows, c) == [i \in 1..Len(rows) |-> rows[i].scores[c]]

\* One group of df.groupby("Snack Label").
LabelGroup(rows, l) == SelectSeq(rows, LAMBDA r : r.label = l)

Labels(rows) == { rows[i].label : i \in 1..Len(rows) }

\* The category mean cut to 2 decimals instead of rounded.
CategoryAverageTruncated(rows, c) ==
    LET m == Mean(Column(rows, c))
    IN ((m[1] * 100) \div (m[2] * Scale)) * (Scale \div 100)

\* .groupby(...)[RATING_COLS].mean().round(2): one cell of the table.
CategoryAverage(rows, c) == Round2(Mean(Column(rows, c)))

\* snack_avgs[RATING_LABELS].mean(axis=1).round(2): over the rounded cells.
CombinedAverage(cats) == Round2(Mean(cats))

\* The table before it is sorted: one row per label, in groupby's (sorted) order.
GroupedAverages(rows) ==
    LET keys == SortedKeys(Labels(rows))
    IN [k \in 1..Len(keys) |->
          LET cats == [c \in Cols |-> CategoryAverage(LabelGroup(rows, keys[k]), c)]
          IN [Snack |-> keys[k], cats |-> cats, Combined |-> CombinedAverage(cats)]]

Descending(t) ==
    \A i \in 1..Len(t), j \in 1..Len(t) : i < j => t[i].Combined >= t[j].Combined

\* sort_values("Combined Average", ascending=False): the default kind is
\* "quicksort", which pandas documents as not stable, so rows with equal keys
\* may come out in any order.
SortValues(t) ==
    { [i \in 1..Len(t) |-> t[p[i]]] :
        p \in { q \in [1..Len(t) -> 1..Len(t)] :
                  /\ \A i \in 1..Len(t), j \in 1..Len(t) : i # j => q[i] # q[j]
                  /\ Descending([i \in 1..Len(t) |-> t[q[i]]]) } }

\* --------------------------------------------------------- snack matches

FNaN == << NaN, 1 >>

\* df[COL_NAME].nunique()
Names(rows) == { rows[i].name : i \in 1..Len(rows) }

PairGroup(rows, n, l) == SelectSeq(rows, LAMBDA r : r.name = n /\ r.label = l)

\* groupby([COL_NAME, "Snack Label"])[RATING_COLS].mean().mean(axis=1) of one pair.
PairAffinity(rows) == FMean([c \in Cols |-> Mean(Column(rows, c))])

\* df[RATING_COLS].stack().mean(): the mean of every single score.
RECURSIVE AllScores(_)
AllScores(rows) ==
    IF rows = <<>> THEN <<>> ELSE Head(rows).scores \o AllScores(Tail(rows))

GlobalMean(rows) == Mean(AllScores(rows))

\* The gap filled with the snack's own mean instead of the mean of all scores.
FillValuePerSnack(rows, l) == GlobalMean(SelectSeq(rows, LAMBDA r : r.label = l))

\* What .fillna(...) puts where a person has no record of a snack.
FillValue(rows, l) == GlobalMean(rows)

\* .unstack("Snack Label").fillna(...): rows are people, columns are labels.
PersonSnack(rows) ==
    [n \in Names(rows) |->
        [l \in Labels(rows) |->
            IF PairGroup(rows, n, l) # <<>>
            THEN PairAffinity(PairGroup(rows, n, l))
            ELSE FillValue(rows, l)]]

\* The difference taken without its absolute value.
TermSigned(a, b) == FSub(a, b)

\* One term of the cityblock metric.
Term(a, b) == FAbs(FSub(a, b))

\* shape[0], the number of people, in place of shape[1].
DivisorPeople(ps, cols, a, b) == Cardinality(DOMAIN ps)

\* person_snack.shape[1]
Divisor(ps, cols, a, b) == Len(cols)

\* cdist(..., metric="cityblock") / person_snack.shape[1], one entry.
Dist(ps, cols, a, b) ==
    FDivInt(FSum([k \in 1..Len(cols) |-> Term(ps[a][cols[k]], ps[b][cols[k]])]),
            Divisor(ps, cols, a, b))

\* The diagonal left as computed (the distance of a person to themselves).
DiagonalKept(d) == d

\* np.fill_diagonal(dist_matrix_copy, np.nan): the value of the diagonal.
Diagonal(d) == FNaN

DistMatrix(ps, cols) ==
    [a \in DOMAIN ps |->
        [b \in DOMAIN ps |->
            IF a = b THEN Diagonal(Dist(ps, cols, a, b)) ELSE Dist(ps, cols, a, b)]]

\* The positions of a row of dist_matrix that are not NaN.
NotNa(row, order) == { i \in 1..Len(order) : row[order[i]] # FNaN }

\* The last position among the candidates.
LastOf(S) == CHOOSE i \in S : \A j \in S : i >= j

\* The first position among the candidates (idxmin/idxmax return the first hit).
FirstOf(S) == CHOOSE i \in S : \A j \in S : i <= j

\* Series.idxmin(): the label of the first smallest value, NaN skipped.
IdxMin(row, order) ==
    LET cand == NotNa(row, order)
        best == { i \in cand : \A j \in cand : FLeq(row[order[i]], row[order[j]]) }
    IN IF cand = {} THEN Unset ELSE order[FirstOf(best)]

\* Series.idxmax(): the label of the first largest value, NaN skipped.
IdxMax(row, order) ==
    LET cand == NotNa(row, order)
        best == { i \in cand : \A j \in cand : FLeq(row[order[j]], row[order[i]]) }
    IN IF cand = {} THEN Unset ELSE order[FirstOf(best)]

\* round(Series.min(), 2)
MinScore(row, order) ==
    IF NotNa(row, order) = {} THEN NaN ELSE Round2(row[IdxMin(row, order)])

\* round(Series.max(), 2)
MaxScore(row, order) ==
    IF NotNa(row, order) = {} THEN NaN ELSE Round2(row[IdxMax(row, order)])

\* The guard off by one: a single person passes.
TooFewPeopleOffByOne(rows) == Cardinality(Names(rows)) < 1

\* if df[COL_NAME].nunique() < 2
TooFewPeople(rows) == Cardinality(Names(rows)) < 2

\* ------------------------------------------------------------ the script

Init ==
    /\ sheet \in Sheets
    /\ pc = "load_data"
    /\ message = "none"
    /\ df = <<>>
    /\ snack_names = <<>>
    /\ snack_avgs = <<>>
    /\ person_snack = <<>>
    /\ people = <<>>
    /\ dist_matrix = <<>>
    /\ selected_person = Unset
    /\ most_similar_name = Unset
    /\ most_similar_score = NaN
    /\ least_similar_name = Unset
    /\ least_similar_score = NaN

\* df = load_data()
LoadData ==
    /\ pc = "load_data"
    /\ df' = load_data(sheet)
    /\ pc' = "load_snack_names"
    /\ UNCHANGED << sheet, message, snack_names, snack_avgs, person_snack, people,
                    dist_matrix, selected_person, most_similar_name,
                    most_similar_score, least_similar_name, least_similar_score >>

\* load_data() raises (the sheet cannot be fetched): st.error, st.stop().
LoadDataFails ==
    /\ pc = "load_data"
    /\ message' = "error"
    /\ pc' = "stopped"
    /\ UNCHANGED << sheet, df, snack_names, snack_avgs, person_snack, people,
                    dist_matrix, selected_person, most_similar_name,
                    most_similar_score, least_similar_name, least_similar_score >>

\* snack_names = load_snack_names(), then the "Snack Label" column.
LoadSnackNames ==
    /\ pc = "load_snack_names"
    /\ \E ns \in NamesSheets :
          /\ snack_names' = load_snack_names(ns)
          /\ df' = WithLabels(df, load_snack_names(ns))
    /\ pc' = "snack_avgs"
    /\ UNCHANGED << sheet, message, snack_avgs, person_snack, people,
                    dist_matrix, selected_person, most_similar_name,
                    most_similar_score, least_similar_name, least_similar_score >>

\* load_snack_names() raises: st.warning, snack_names = {}, labels are the ids.
LoadSnackNamesFails ==
    /\ pc = "load_snack_names"
    /\ message' = "warning"
    /\ snack_names' = <<>>
    /\ df' = WithLabels(df, <<>>)
    /\ pc' = "snack_avgs"
    /\ UNCHANGED << sheet, snack_avgs, person_snack, people,
                    dist_matrix, selected_person, most_similar_name,
                    most_similar_score, least_similar_name, least_similar_score >>

\* The snack averages table, grouped, rounded, combined and sorted.
SnackAverages ==
    /\ pc = "snack_avgs"
    /\ snack_avgs' \in SortValues(GroupedAverages(df))
    /\ pc' = "snack_matches"
    /\ UNCHANGED << sheet, message, df, snack_names, person_snack, people,
                    dist_matrix, selected_person, most_similar_name,
                    most_similar_score, least_similar_name, least_similar_score >>

\* Fewer than 2 people: st.info, and nothing of the stage is computed.
SnackMatchesInfo ==
    /\ pc = "snack_matches"
    /\ TooFewPeople(df)
    /\ message' = "info"
    /\ pc' = "done"
    /\ UNCHANGED << sheet, df, snack_names, snack_avgs, person_snack, people,
                    dist_matrix, selected_person, most_similar_name,
                    most_similar_score, least_similar_name, least_similar_score >>

\* The person x snack matrix and the distance matrix.
SnackMatches ==
    /\ pc = "snack_matches"
    /\ ~TooFewPeople(df)
    /\ person_snack' = PersonSnack(df)
    /\ people' = SortedKeys(Names(df))
    /\ dist_matrix' = DistMatrix(PersonSnack(df), SortedKeys(Labels(df)))
    /\ pc' = "selectbox"
    /\ UNCHANGED << sheet, message, df, snack_names, snack_avgs, selected_person,
                    most_similar_name, most_similar_score, least_similar_name,
                    least_similar_score >>

\* st.selectbox("Select a person", sorted(people)) and the four results.
SelectPerson ==
    /\ pc = "selectbox"
    /\ \E p \in { people[i] : i \in 1..Len(people) } :
          /\ selected_person' = p
          /\ most_similar_name' = IdxMin(dist_matrix[p], people)
          /\ most_similar_score' = MinScore(dist_matrix[p], people)
          /\ least_similar_name' = IdxMax(dist_matrix[p], people)
          /\ least_similar_score' = MaxScore(dist_matrix[p], people)
    /\ pc' = "done"
    /\ UNCHANGED << sheet, message, df, snack_names, snack_avgs, person_snack,
                    people, dist_matrix >>

\* The refresh button: st.cache_data.clear(), st.rerun().
Refresh ==
    /\ pc = "done"
    /\ pc' = "load_data"
    /\ message' = "none"
    /\ df' = <<>>
    /\ snack_names' = <<>>
    /\ snack_avgs' = <<>>
    /\ person_snack' = <<>>
    /\ people' = <<>>
    /\ dist_matrix' = <<>>
    /\ selected_person' = Unset
    /\ most_similar_name' = Unset
    /\ most_similar_score' = NaN
    /\ least_similar_name' = Unset
    /\ least_similar_score' = NaN
    /\ UNCHANGED sheet

Next ==
    \/ LoadData
    \/ LoadDataFails
    \/ LoadSnackNames
    \/ LoadSnackNamesFails
    \/ SnackAverages
    \/ SnackMatchesInfo
    \/ SnackMatches
    \/ SelectPerson
    \/ Refresh

Spec == Init /\ [][Next]_vars

\* ---------------------------------------------------------------- phases

Loaded == pc \notin {"load_data", "stopped"}

Labelled == pc \in {"snack_avgs", "snack_matches", "selectbox", "done"}

Averaged == pc \in {"snack_matches", "selectbox", "done"}

MatrixBuilt == pc \in {"selectbox", "done"} /\ people # <<>>

Selected == pc = "done" /\ selected_person # Unset

People == { people[i] : i \in 1..Len(people) }

\* The distinct snack ids of the cleaned ratings.
SnackIds == { df[i].snack : i \in 1..Len(df) }

MinOf(s) == CHOOSE x \in { s[i] : i \in 1..Len(s) } : \A i \in 1..Len(s) : x <= s[i]

MaxOf(s) == CHOOSE x \in { s[i] : i \in 1..Len(s) } : \A i \in 1..Len(s) : x >= s[i]

\* The members of a set, in some order.
RECURSIVE Enumerate(_)
Enumerate(S) ==
    IF S = {} THEN <<>>
    ELSE LET x == CHOOSE y \in S : TRUE IN <<x>> \o Enumerate(S \ {x})

\* ------------------------------------------------------------------- C1

\* The unrounded per-category means of a snack, averaged and rounded once.
RoundOnce(l) == Round2(FMean([c \in Cols |-> Mean(Column(LabelGroup(df, l), c))]))

\* C1: every snack's reported combined average equals the mean of its
\* unrounded per-category means, rounded to 2 decimals exactly once.
C1_CombinedRoundedOnce ==
    Averaged =>
        \A i \in 1..Len(snack_avgs) :
            snack_avgs[i].Combined = RoundOnce(snack_avgs[i].Snack)

\* ------------------------------------------------------------------- C2

\* A raw row with a name, a snack id and four cells that coerce to numbers.
Complete(r) ==
    /\ r.name # <<>>
    /\ r.snack # <<>>
    /\ \A c \in Cols : r.ratings[c] # <<>> /\ ToNumeric(r.ratings[c]) # NaN

CompleteRows == SelectSeq(sheet, Complete)

\* C2: the cleaned ratings are exactly the complete raw rows, in their order,
\* every one with a name, a snack id and four numeric values; the tables and
\* matrices built later mention only snacks and people of complete rows, and
\* the group sizes are those of the complete rows.
C2_FilterKeepsExactlyCompleteRows ==
    /\ Loaded =>
          /\ Len(df) = Len(CompleteRows)
          /\ \A i \in 1..Len(df) :
                /\ df[i].name = CompleteRows[i].name /\ df[i].name # <<>>
                /\ df[i].snack = CompleteRows[i].snack /\ df[i].snack # <<>>
                /\ \A c \in Cols :
                      /\ df[i].scores[c] # NaN
                      /\ df[i].scores[c] = ToNumeric(CompleteRows[i].ratings[c])
    /\ Averaged =>
          /\ Len(snack_avgs) =
                Cardinality({ CompleteRows[i].snack : i \in 1..Len(CompleteRows) })
          /\ \A k \in 1..Len(snack_avgs) :
                \E i \in 1..Len(CompleteRows) :
                    snack_label(CompleteRows[i].snack, snack_names) = snack_avgs[k].Snack
    /\ MatrixBuilt =>
          People = { CompleteRows[i].name : i \in 1..Len(CompleteRows) }

\* A row of each kind was dropped and a complete row kept.
C2_Witness ==
    /\ Averaged
    /\ Len(df) = 1
    /\ Len(sheet) = 3
    /\ \E i \in 1..3 : sheet[i].name # <<>> /\ sheet[i].snack # <<>>
                       /\ \E c \in Cols : sheet[i].ratings[c] = <<"x">>
    /\ \E i \in 1..3 : sheet[i].name = <<>> \/ sheet[i].snack = <<>>
                       \/ \E c \in Cols : sheet[i].ratings[c] = <<>>

\* ------------------------------------------------------------------- C3

\* C3: with 2 or more people, neither the nearest nor the farthest query of
\* any person returns that person, ties and zero distances included.
C3_NeverSelf ==
    /\ MatrixBuilt =>
          \A p \in People :
              /\ IdxMin(dist_matrix[p], people) \in People \ {p}
              /\ IdxMax(dist_matrix[p], people) \in People \ {p}
    /\ Selected =>
          /\ most_similar_name \in People \ {selected_person}
          /\ least_similar_name \in People \ {selected_person}

\* The first person of the matrix was queried while everyone else is at
\* distance 0, so the excluded diagonal ties with every candidate.
C3_Witness ==
    /\ Selected
    /\ Len(people) = 3
    /\ selected_person = people[1]
    /\ \A q \in People \ {selected_person} : dist_matrix[selected_person][q] = <<0, 1>>

\* ------------------------------------------------------------------- C4

\* C4: with fewer than 2 distinct people the stage shows the insufficient-data
\* message and computes no matrix and no result; with 2 or more the message
\* is never shown and the matrices are computed.
C4_InsufficientData ==
    pc \in {"selectbox", "done"} =>
        IF Cardinality({ df[i].name : i \in 1..Len(df) }) < 2
        THEN /\ message = "info"
             /\ DOMAIN person_snack = {}
             /\ DOMAIN dist_matrix = {}
             /\ people = <<>>
             /\ selected_person = Unset
             /\ most_similar_name = Unset
             /\ least_similar_name = Unset
        ELSE /\ message # "info"
             /\ DOMAIN person_snack # {}
             /\ DOMAIN dist_matrix # {}

\* Exactly one person among the cleaned ratings, and the stage has run.
C4_Witness ==
    /\ pc = "done"
    /\ Cardinality({ df[i].name : i \in 1..Len(df) }) = 1
    /\ message = "info"

\* ------------------------------------------------------------------- C5

\* The position of a snack in the table before it is sorted.
GroupedPos(l) ==
    CHOOSE k \in 1..Len(GroupedAverages(df)) : GroupedAverages(df)[k].Snack = l

C6_WithinMinMax ==
    Averaged =>
        \A i \in 1..Len(snack_avgs) : \A c \in Cols :
            LET col == Column(LabelGroup(df, snack_avgs[i].Snack), c)
            IN /\ MinOf(col) <= snack_avgs[i].cats[c]
               /\ snack_avgs[i].cats[c] <= MaxOf(col)
               /\ Len(col) = 1 => snack_avgs[i].cats[c] = col[1]

\* C6 amended: every reported category average lies between the smallest and
\* the largest value of that category among the snack's records, each rounded
\* to 2 decimals, and is a whole number of hundredths; a snack with a single
\* record reports that record's value rounded to 2 decimals.
C6_WithinRoundedMinMax ==
    Averaged =>
        \A i \in 1..Len(snack_avgs) : \A c \in Cols :
            LET col == Column(LabelGroup(df, snack_avgs[i].Snack), c)
            IN /\ Round2(<<MinOf(col), 1>>) <= snack_avgs[i].cats[c]
               /\ snack_avgs[i].cats[c] <= Round2(<<MaxOf(col), 1>>)
               /\ snack_avgs[i].cats[c] % (Scale \div 100) = 0
               /\ Len(col) = 1 => snack_avgs[i].cats[c] = Round2(<<col[1], 1>>)

\* A snack with a single record whose values are not whole hundredths, and a
\* snack with several records of different values.
C6_Witness ==
    /\ Averaged
    /\ \E i \in 1..Len(snack_avgs) : \E c \in Cols :
          LET col == Column(LabelGroup(df, snack_avgs[i].Snack), c)
          IN Len(col) = 1 /\ col[1] % (Scale \div 100) # 0
    /\ \E i \in 1..Len(snack_avgs) : \E c \in Cols :
          LET col == Column(LabelGroup(df, snack_avgs[i].Snack), c)
          IN Len(col) > 1 /\ MinOf(col) < MaxOf(col)

\* ------------------------------------------------------------------- C7

\* C7: for every two distinct people of the distance matrix, d(i,j) = d(j,i).
C7_Symmetric ==
    MatrixBuilt =>
        \A a \in People, b \in People :
            a # b => /\ dist_matrix[a][b] = dist_matrix[b][a]
                     /\ dist_matrix[a][b] # FNaN

\* Three people, two snacks, with a distance that is not 0.
C7_Witness ==
    /\ MatrixBuilt
    /\ Len(people) = 3
    /\ Cardinality(SnackIds) = 2
    /\ \E a \in People, b \in People : a # b /\ FLess(<<0, 1>>, dist_matrix[a][b])

\* ------------------------------------------------------------------- C8

\* The position of a person in the matrix's ordering.
PersonPos(p) == CHOOSE i \in 1..Len(people) : people[i] = p

\* q is the nearest match of p: another person at the smallest distance, the
\* first such in the matrix's ordering.
IsNearest(p, q) ==
    /\ q \in People \ {p}
    /\ \A r \in People \ {p} :
          /\ FLeq(dist_matrix[p][q], dist_matrix[p][r])
          /\ PersonPos(r) < PersonPos(q) => FLess(dist_matrix[p][q], dist_matrix[p][r])

\* q is the farthest match of p, likewise.
IsFarthest(p, q) ==
    /\ q \in People \ {p}
    /\ \A r \in People \ {p} :
          /\ FLeq(dist_matrix[p][r], dist_matrix[p][q])
          /\ PersonPos(r) < PersonPos(q) => FLess(dist_matrix[p][r], dist_matrix[p][q])

\* C8: with 2 or more people, the nearest query of p returns another person at
\* the minimum distance and the farthest query one at the maximum distance, the
\* first in the matrix's person ordering among ties; the scores are those
\* distances rounded to 2 decimals; when another person has the same affinity
\* vector as p, the nearest score is 0 and the person returned is at distance 0.
C8_NearestFarthest ==
    /\ MatrixBuilt =>
          \A p \in People :
              /\ IsNearest(p, IdxMin(dist_matrix[p], people))
              /\ IsFarthest(p, IdxMax(dist_matrix[p], people))
              /\ (\E r \in People \ {p} : person_snack[r] = person_snack[p]) =>
                    /\ MinScore(dist_matrix[p], people) = 0
                    /\ dist_matrix[p][IdxMin(dist_matrix[p], people)] = <<0, 1>>
    /\ Selected =>
          /\ IsNearest(selected_person, most_similar_name)
          /\ IsFarthest(selected_person, least_similar_name)
          /\ most_similar_score = Round2(dist_matrix[selected_person][most_similar_name])
          /\ least_similar_score = Round2(dist_matrix[selected_person][least_similar_name])

\* The first of three people is queried and the other two, whose affinity
\* vectors are equal, tie both for the nearest and for the farthest: the
\* second person is returned.
C8_TieWitness ==
    /\ Selected
    /\ Len(people) = 3
    /\ selected_person = people[1]
    /\ dist_matrix[people[1]][people[2]] = dist_matrix[people[1]][people[3]]
    /\ FLess(<<0, 1>>, dist_matrix[people[1]][people[2]])
    /\ most_similar_name = people[2]
    /\ least_similar_name = people[2]
    /\ person_snack[people[2]] = person_snack[people[3]]

\* ------------------------------------------------------------------- C9

\* The mean of one record's four scores.
RecordMean(r) == Mean(r.scores)

\* The mean of every single score of the cleaned ratings.
MeanOfAllScores ==
    Frac(SumSeq([i \in 1..Len(df) |-> SumSeq(df[i].scores)]), NCols * Len(df))

\* C9: the matrix has a row for every distinct person and a column for every
\* distinct snack; a pair with records holds the mean over its records of the
\* per-record category mean; every pair without a record holds the mean of
\* every single score of the cleaned ratings.
C9_AffinityMatrix ==
    MatrixBuilt =>
        /\ DOMAIN person_snack = { df[i].name : i \in 1..Len(df) }
        /\ \A p \in DOMAIN person_snack :
              /\ DOMAIN person_snack[p] = { df[i].label : i \in 1..Len(df) }
              /\ Cardinality(DOMAIN person_snack[p]) = Cardinality(SnackIds)
              /\ \A l \in DOMAIN person_snack[p] :
                    LET recs == SelectSeq(df, LAMBDA r : r.name = p /\ r.label = l)
                    IN person_snack[p][l] =
                          IF recs # <<>>
                          THEN FMean([k \in 1..Len(recs) |-> RecordMean(recs[k])])
                          ELSE MeanOfAllScores

\* A pair with two records of different values, and a pair with no record
\* whose snack's own mean differs from the mean of all scores.
C9_Witness ==
    /\ MatrixBuilt
    /\ \E p \in People, l \in Labels(df) :
          /\ Len(PairGroup(df, p, l)) = 2
          /\ PairGroup(df, p, l)[1].scores # PairGroup(df, p, l)[2].scores
    /\ \E p \in People, l \in Labels(df) :
          /\ PairGroup(df, p, l) = <<>>
          /\ GlobalMean(LabelGroup(df, l)) # MeanOfAllScores

\* ------------------------------------------------------------------ C10

\* The largest and the smallest single score of the cleaned ratings.
Highest == MaxOf(AllScores(df))

Lowest == MinOf(AllScores(df))

\* The absolute differences of two people's affinities, one per distinct label.
Differences(a, b) ==
    LET ls == Enumerate({ df[i].label : i \in 1..Len(df) })
    IN [k \in 1..Len(ls) |-> FAbs(FSub(person_snack[a][ls[k]], person_snack[b][ls[k]]))]

\* The end-to-end example: A rates S1 all 5, B rates S1 all 1.
IsExample ==
    /\ Len(df) = 2
    /\ df[1].name = <<"A">> /\ df[1].snack = <<"S", "1">>
    /\ df[2].name = <<"B">> /\ df[2].snack = <<"S", "1">>
    /\ \A c \in Cols : df[1].scores[c] = 5 * Scale /\ df[2].scores[c] = 1 * Scale

\* C10: the distance of two distinct people is the sum over all distinct snacks
\* of the absolute difference of their affinities, divided by the number of
\* distinct snacks; it is at least 0 and at most the highest minus the lowest
\* score of the cleaned ratings; in the example it is 4.0.
C10_Distance ==
    MatrixBuilt =>
        /\ \A a \in People, b \in People :
              a # b =>
                  /\ dist_matrix[a][b] =
                        FDivInt(FSum(Differences(a, b)), Cardinality(SnackIds))
                  /\ FLeq(<<0, 1>>, dist_matrix[a][b])
                  /\ FLeq(dist_matrix[a][b], <<Highest - Lowest, 1>>)
        /\ IsExample => dist_matrix[<<"A">>][<<"B">>] = <<4 * Scale, 1>>

\* Two people with one snack in common and a second snack only one of them
\* rated, at a distance that is not 0.
C10_Witness ==
    /\ MatrixBuilt
    /\ Cardinality(SnackIds) = 2
    /\ \E a \in People, b \in People, l \in Labels(df), m \in Labels(df) :
          /\ a # b /\ l # m
          /\ PairGroup(df, a, l) # <<>> /\ PairGroup(df, b, l) # <<>>
          /\ PairGroup(df, a, m) # <<>> /\ PairGroup(df, b, m) = <<>>
          /\ FLess(<<0, 1>>, dist_matrix[a][b])

\* The end-to-end example has run.
C10_ExampleWitness == MatrixBuilt /\ IsExample

====
